---- MODULE Spec2Model ----
(***************************************************************************)
(* Aggregation core of the OIC portal dashboard (dashboard_prod.py).       *)
(*                                                                         *)
(* Every Streamlit interaction re-runs the script: one page handler runs   *)
(* from top to bottom over the (cached) data frames.  The widgets          *)
(* (multiselect, radio, slider) are external collaborators; the values     *)
(* they hand back are the inputs of the handlers.  A handler is one        *)
(* action: it reads the frame, the widget values, and leaves the frames    *)
(* it hands to the charts and the figures of its KPI row in the state.     *)
(*                                                                         *)
(* Months are numbered 1, 2, 3, ...; a date is a record [month, day];      *)
(* a month timestamp is the date of the first day of the month.  Floating  *)
(* point quotients are kept as exact fractions [num, den]; a quotient by   *)
(* zero is the fraction with den = 0 (NaN or infinity).                    *)
(***************************************************************************)
EXTENDS Integers, Sequences, FiniteSets, TLC

VARIABLES source,        \* a portal CSV file as it lies in assets/
          cache,         \* st.cache_data of the loaders: "cold" or "warm"
          df,            \* get_data(): the cached OIC dashboard frame
          dfp,           \* get_portal_all(): the cached Claims Portal frame
          page,          \* the page the sidebar radio selects
          quick_date_range, \* the Quick Date Range radio's value in this run
          selected_rep,  \* filters_ui: the multiselect's value
          combined,      \* filters_ui: "Combined" in selected_rep
          selected_lobs, \* claims_portal_page: the LoB multiselect's value
          start_date,    \* first date of the window the handler filters by
          end_date,      \* last date of the window the handler filters by
          filtered_df,   \* home_page: the frame the Summary row is taken over
          plot_df,       \* the frame handed to the charts (plot_df / grouped / view)
          summary,       \* the figures of the page's KPI row
          raised         \* the exception the run ended with, "none" if it ran through

vars == <<source, cache, df, dfp, page, quick_date_range, selected_rep, combined, selected_lobs,
          start_date, end_date, filtered_df, plot_df, summary, raised>>

-----------------------------------------------------------------------------
(* Bounds of the model *)

MaxMonth == 2
MaxRows == 2

Months == 1..MaxMonth

-----------------------------------------------------------------------------
(* Arithmetic helpers *)

RECURSIVE SeqSum(_)
SeqSum(s) == IF s = <<>> THEN 0 ELSE Head(s) + SeqSum(Tail(s))

\* Series.sum() of one column of a frame
ColSum(frame, col) == SeqSum([i \in 1..Len(frame) |-> frame[i][col]])

Abs(n) == IF n < 0 THEN -n ELSE n

RECURSIVE GCD(_, _)
GCD(a, b) == IF b = 0 THEN a ELSE GCD(b, a % b)

\* the float 0 / 0.0
Zero == [num |-> 0, den |-> 1]

\* n / d in floating point: an exact fraction in lowest terms; d = 0 gives
\* NaN (0/0) or infinity (n/0), both kept as a fraction with den = 0.
TrueDiv(n, d) ==
    IF d = 0 THEN [num |-> IF n = 0 THEN 0 ELSE IF n > 0 THEN 1 ELSE -1, den |-> 0]
    ELSE LET g == GCD(Abs(n), Abs(d))
             s == IF d < 0 THEN -1 ELSE 1
         IN  [num |-> s * (n \div g), den |-> s * (d \div g)]

IsNaN(q) == q.den = 0

\* a + b of two fractions
RatAdd(a, b) == TrueDiv(a.num * b.den + b.num * a.den, a.den * b.den)

-----------------------------------------------------------------------------
(* Dates *)

\* Timestamp.to_period('M').to_timestamp(): the first day of the date's month
MonthStart(d) == [month |-> d.month, day |-> 1]

\* the month timestamp of month m
Ts(m) == [month |-> m, day |-> 1]

DateLE(a, b) == a.month < b.month \/ (a.month = b.month /\ a.day <= b.day)

\* series >= start & series <= end
InWindow(d, s, e) == DateLE(s, d) /\ DateLE(d, e)

\* pd.date_range(start, end, freq='MS'): the month starts in [start, end], ascending
date_range(s, e) ==
    LET lo == IF s.day = 1 THEN s.month ELSE s.month + 1
        hi == e.month
    IN  IF hi < lo THEN <<>> ELSE [i \in 1..(hi - lo + 1) |-> Ts(lo + i - 1)]

-----------------------------------------------------------------------------
(* The OIC dashboard frame (assets/oic_dashboard.csv) *)

Days == {1, 15}
Dates == [month : Months, day : Days]

RepStatuses == {"Represented", "Unrepresented"}

\* the metric cells of one CSV row
DashMetrics ==
    { [claims_volume |-> 2, settlement_volume |-> 1, total_settlement_value |-> 3,
       exit_court |-> 1,
       vol_tariff_amount |-> 1, avg_tariff_amount |-> 2,
       vol_non_tariff |-> 1, avg_non_tariff |-> 3,
       vol_tariff_uplift |-> 0, avg_tariff_uplift |-> 0],
      [claims_volume |-> 1, settlement_volume |-> 2, total_settlement_value |-> 2,
       exit_court |-> 0,
       vol_tariff_amount |-> 2, avg_tariff_amount |-> 1,
       vol_non_tariff |-> 3, avg_non_tariff |-> 1,
       vol_tariff_uplift |-> 1, avg_tariff_uplift |-> 2],
      [claims_volume |-> 1, settlement_volume |-> 0, total_settlement_value |-> 0,
       exit_court |-> 0,
       vol_tariff_amount |-> 0, avg_tariff_amount |-> 0,
       vol_non_tariff |-> 0, avg_non_tariff |-> 0,
       vol_tariff_uplift |-> 2, avg_tariff_uplift |-> 1] }

\* one record of the CSV: the period cell, the status cell, the metric cells
DashCsvRows == [period : Months, representation_status : RepStatuses, m : DashMetrics]

StatusRank(s) == IF s = "Combined" THEN 0 ELSE IF s = "Represented" THEN 1 ELSE 2

\* the file lists its records by month and, within a month, by status
CsvKeyLE(a, b) ==
    \/ a.period < b.period
    \/ /\ a.period = b.period
       /\ StatusRank(a.representation_status) <= StatusRank(b.representation_status)

DashCsvFiles ==
    { f \in UNION { [1..n -> DashCsvRows] : n \in 1..MaxRows } :
        \A i \in 1..(Len(f) - 1) : CsvKeyLE(f[i], f[i + 1]) }

\* get_data: read the file, turn year_month into the month's timestamp
get_data(file) ==
    [i \in 1..Len(file) |->
        [year_month |-> MonthStart([month |-> file[i].period, day |-> 1]),
         representation_status |-> file[i].representation_status,
         claims_volume |-> file[i].m.claims_volume,
         settlement_volume |-> file[i].m.settlement_volume,
         total_settlement_value |-> file[i].m.total_settlement_value,
         exit_court |-> file[i].m.exit_court,
         vol_tariff_amount |-> file[i].m.vol_tariff_amount,
         avg_tariff_amount |-> file[i].m.avg_tariff_amount,
         vol_non_tariff |-> file[i].m.vol_non_tariff,
         avg_non_tariff |-> file[i].m.avg_non_tariff,
         vol_tariff_uplift |-> file[i].m.vol_tariff_uplift,
         avg_tariff_uplift |-> file[i].m.avg_tariff_uplift]]

-----------------------------------------------------------------------------
(* Frame helpers *)

RECURSIVE SortSet(_)
SortSet(S) ==
    IF S = {} THEN <<>>
    ELSE LET m == CHOOSE x \in S : \A y \in S : x <= y
         IN  <<m>> \o SortSet(S \ {m})

\* the month keys of a groupby on year_month, in the order groupby sorts them
MonthKeys(frame) == SortSet({ frame[i].year_month.month : i \in 1..Len(frame) })

\* frame[(frame.year_month >= start) & (frame.year_month <= end)]
FilterWindow(frame, s, e) ==
    LET Keep(r) == InWindow(r.year_month, s, e) IN SelectSeq(frame, Keep)

\* frame[frame.representation_status.isin(sel)]
FilterStatus(frame, sel) ==
    LET Keep(r) == r.representation_status \in sel IN SelectSeq(frame, Keep)

RowsOfMonth(frame, m) ==
    LET Keep(r) == r.year_month.month = m IN SelectSeq(frame, Keep)

RowsOfKey(frame, m, st) ==
    LET Keep(r) == r.year_month.month = m /\ r.representation_status = st
    IN  SelectSeq(frame, Keep)

\* the (month, status) keys of a groupby on both columns, sorted
StatusKeys(frame) ==
    LET K == 3
        codes == { frame[i].year_month.month * K + StatusRank(frame[i].representation_status)
                     : i \in 1..Len(frame) }
        sorted == SortSet(codes)
    IN  [i \in 1..Len(sorted) |->
            [month |-> sorted[i] \div K,
             status |-> IF sorted[i] % K = 1 THEN "Represented" ELSE "Unrepresented"]]

\* the options of the Representation multiselect, in the order it lists them
RepresentationOptions == <<"Combined", "Represented", "Unrepresented">>

\* the multiselect's value as a list
SelList(sel) == LET Keep(x) == x \in sel IN SelectSeq(RepresentationOptions, Keep)

\* MultiIndex.from_product([months, statuses])
Product(months, statuses) ==
    [i \in 1..(Len(months) * Len(statuses)) |->
        [month |-> months[((i - 1) \div Len(statuses)) + 1].month,
         status |-> statuses[((i - 1) % Len(statuses)) + 1]]]

-----------------------------------------------------------------------------
(* filters_ui *)

QuickPicks == {"Custom", "Last 12 months", "Last 24 months", "Last 36 months"}

\* the number of months a quick pick goes back
QuickMonths(quick_pick) ==
    IF quick_pick = "Last 12 months" THEN 12
    ELSE IF quick_pick = "Last 24 months" THEN 24 ELSE 36

\* Timestamp - pd.DateOffset(months = n)
MinusMonths(d, n) == [month |-> d.month - n, day |-> d.day]

\* Series.min() / Series.max() of year_month
MinDate(frame) == Ts(CHOOSE m \in { frame[i].year_month.month : i \in 1..Len(frame) } :
                        \A i \in 1..Len(frame) : m <= frame[i].year_month.month)
MaxDate(frame) == Ts(CHOOSE m \in { frame[i].year_month.month : i \in 1..Len(frame) } :
                        \A i \in 1..Len(frame) : m >= frame[i].year_month.month)

\* filters_ui(df) for the values the three widgets hand back: the multiselect's
\* selection, the radio's quick pick and the slider's pair of dates
filters_ui(frame, sel, quick_pick, slider) ==
    LET min_date == MinDate(frame)
        max_date == MaxDate(frame)
        back     == MinusMonths(max_date, QuickMonths(quick_pick))
        start    == IF ~DateLE(min_date, back) THEN min_date ELSE back
        selected_date == IF quick_pick = "Custom" THEN slider ELSE <<start, max_date>>
    IN  [selected_rep |-> sel,
         combined     |-> "Combined" \in sel,
         start_date   |-> MonthStart(selected_date[1]),
         end_date     |-> MonthStart(selected_date[2])]

\* what the Representation multiselect can hand back
Selections == SUBSET { RepresentationOptions[i] : i \in 1..Len(RepresentationOptions) }

NoDate == [month |-> 0, day |-> 0]

\* what the Date Range slider hands back; the quick picks show it disabled
\* and do not read it
SliderValues(quick_pick) ==
    IF quick_pick = "Custom" THEN Dates \X Dates ELSE {<<NoDate, NoDate>>}

-----------------------------------------------------------------------------
(* home_page *)

\* variant: the quotient without the settlement_volume > 0 guard
WeightedAvgTakesZeroVolume(row) ==
    TrueDiv(row.total_settlement_value, row.settlement_volume)

\* the row lambda of the weighted_avg_settlement column
weighted_avg_settlement(row) ==
    IF row.settlement_volume > 0
    THEN TrueDiv(row.total_settlement_value, row.settlement_volume)
    ELSE Zero

\* groupby('year_month').agg(sum of the three metrics)
HomeGroupByMonth(frame) ==
    LET keys == MonthKeys(frame)
    IN  [k \in 1..Len(keys) |->
            LET g == RowsOfMonth(frame, keys[k])
            IN  [year_month |-> Ts(keys[k]),
                 claims_volume |-> ColSum(g, "claims_volume"),
                 settlement_volume |-> ColSum(g, "settlement_volume"),
                 total_settlement_value |-> ColSum(g, "total_settlement_value")]]

\* variant: agg 'first' in place of 'sum'
HomeGroupByStatusFirstRow(frame) ==
    LET keys == StatusKeys(frame)
    IN  [k \in 1..Len(keys) |->
            LET g == RowsOfKey(frame, keys[k].month, keys[k].status)
            IN  [year_month |-> Ts(keys[k].month),
                 representation_status |-> keys[k].status,
                 claims_volume |-> g[1].claims_volume,
                 settlement_volume |-> g[1].settlement_volume,
                 total_settlement_value |-> g[1].total_settlement_value]]

\* groupby(['year_month', 'representation_status']).agg(sum of the three metrics)
HomeGroupByStatus(frame) ==
    LET keys == StatusKeys(frame)
    IN  [k \in 1..Len(keys) |->
            LET g == RowsOfKey(frame, keys[k].month, keys[k].status)
            IN  [year_month |-> Ts(keys[k].month),
                 representation_status |-> keys[k].status,
                 claims_volume |-> ColSum(g, "claims_volume"),
                 settlement_volume |-> ColSum(g, "settlement_volume"),
                 total_settlement_value |-> ColSum(g, "total_settlement_value")]]

\* variant: the grouped months of the window without the reindex
HomeReindexNoFill(grouped, months) ==
    LET Keep(t) == \E i \in 1..Len(grouped) : grouped[i].year_month = t
        have == SelectSeq(months, Keep)
    IN  [k \in 1..Len(have) |->
            grouped[CHOOSE i \in 1..Len(grouped) : grouped[i].year_month = have[k]]]

\* set_index('year_month').reindex(date_range, fill_value=0)
HomeReindexMonths(grouped, months) ==
    [k \in 1..Len(months) |->
        IF \E i \in 1..Len(grouped) : grouped[i].year_month = months[k]
        THEN grouped[CHOOSE i \in 1..Len(grouped) : grouped[i].year_month = months[k]]
        ELSE [year_month |-> months[k], claims_volume |-> 0,
              settlement_volume |-> 0, total_settlement_value |-> 0]]

\* variant: the grouped keys of the grid without the reindex
HomeReindexProductNoFill(grouped, full_index) ==
    LET Hit(i, key) == /\ grouped[i].year_month = Ts(key.month)
                       /\ grouped[i].representation_status = key.status
        Keep(key) == \E i \in 1..Len(grouped) : Hit(i, key)
        have == SelectSeq(full_index, Keep)
    IN  [k \in 1..Len(have) |-> grouped[CHOOSE i \in 1..Len(grouped) : Hit(i, have[k])]]

\* set_index(['year_month', 'representation_status']).reindex(full_index, fill_value=0)
HomeReindexProduct(grouped, full_index) ==
    [k \in 1..Len(full_index) |->
        LET Hit(i) == /\ grouped[i].year_month = Ts(full_index[k].month)
                      /\ grouped[i].representation_status = full_index[k].status
        IN  IF \E i \in 1..Len(grouped) : Hit(i)
            THEN grouped[CHOOSE i \in 1..Len(grouped) : Hit(i)]
            ELSE [year_month |-> Ts(full_index[k].month),
                  representation_status |-> full_index[k].status,
                  claims_volume |-> 0, settlement_volume |-> 0,
                  total_settlement_value |-> 0]]

\* frame['weighted_avg_settlement'] = frame.apply(lambda row: ..., axis=1)
HomeApplyAvg(frame) ==
    [k \in 1..Len(frame) |->
        IF "representation_status" \in DOMAIN frame[k]
        THEN [year_month |-> frame[k].year_month,
              representation_status |-> frame[k].representation_status,
              claims_volume |-> frame[k].claims_volume,
              settlement_volume |-> frame[k].settlement_volume,
              total_settlement_value |-> frame[k].total_settlement_value,
              weighted_avg_settlement |-> weighted_avg_settlement(frame[k])]
        ELSE [year_month |-> frame[k].year_month,
              claims_volume |-> frame[k].claims_volume,
              settlement_volume |-> frame[k].settlement_volume,
              total_settlement_value |-> frame[k].total_settlement_value,
              weighted_avg_settlement |-> weighted_avg_settlement(frame[k])]]

\* the combined branch: the grouped, windowed, gap-filled frame
HomeCombinedFrame(frame, s, e) ==
    HomeApplyAvg(HomeReindexMonths(FilterWindow(HomeGroupByMonth(frame), s, e),
                                   date_range(s, e)))

\* variant: the status filter without the window filter
HomeFilteredRowsNoWindow(frame, sel, s, e) == FilterStatus(frame, sel)

\* the per-status branch: the rows that pass the two filters
HomeFilteredRows(frame, sel, s, e) == FilterWindow(FilterStatus(frame, sel), s, e)

\* the per-status branch: agg_df
HomeStatusFrame(frame, sel, s, e) ==
    HomeApplyAvg(HomeReindexProduct(HomeGroupByStatus(HomeFilteredRows(frame, sel, s, e)),
                                    Product(date_range(s, e), SelList(sel))))

\* the Summary row, taken over filtered_df
HomeSummary(frame) ==
    LET sv  == ColSum(frame, "settlement_volume")
        tsv == ColSum(frame, "total_settlement_value")
    IN  [claims_volume |-> ColSum(frame, "claims_volume"),
         settlement_volume |-> sv,
         total_settlement_value |-> tsv,
         avg_settlement |-> IF sv > 0 THEN TrueDiv(tsv, sv) ELSE Zero]

NoSummary == [page |-> "none"]

home_page ==
    /\ page = "none"
    /\ cache = "warm"
    /\ df # <<>>
    /\ \E sel \in Selections, quick_pick \in QuickPicks :
       \E slider \in SliderValues(quick_pick) :
          LET f == filters_ui(df, sel, quick_pick, slider)
              is_combined == f.combined \/ Cardinality(f.selected_rep) = 0
              fdf == IF is_combined
                     THEN HomeCombinedFrame(df, f.start_date, f.end_date)
                     ELSE HomeFilteredRows(df, f.selected_rep, f.start_date, f.end_date)
          IN  /\ page' = "Home"
              /\ quick_date_range' = quick_pick
              /\ selected_rep' = f.selected_rep
              /\ combined' = f.combined
              /\ start_date' = f.start_date
              /\ end_date' = f.end_date
              /\ filtered_df' = fdf
              /\ plot_df' = IF is_combined THEN fdf
                            ELSE HomeStatusFrame(df, f.selected_rep, f.start_date, f.end_date)
              /\ summary' = HomeSummary(fdf)
    /\ UNCHANGED <<source, cache, df, dfp, selected_lobs, raised>>

-----------------------------------------------------------------------------
(* settlement_analysis_page *)

\* Series.mean() of one column of a (non-empty) group
ColMean(g, col) == TrueDiv(ColSum(g, col), Len(g))

\* the agg map of the page: volumes are summed, averages are averaged
SettlementAgg(g) ==
    [vol_tariff_amount |-> ColSum(g, "vol_tariff_amount"),
     avg_tariff_amount |-> ColMean(g, "avg_tariff_amount"),
     vol_non_tariff    |-> ColSum(g, "vol_non_tariff"),
     avg_non_tariff    |-> ColMean(g, "avg_non_tariff"),
     vol_tariff_uplift |-> ColSum(g, "vol_tariff_uplift"),
     avg_tariff_uplift |-> ColMean(g, "avg_tariff_uplift")]

\* chart_df: the rows that enter the groupby
SettlementChartRows(frame, sel, is_combined, s, e) ==
    FilterWindow(IF is_combined THEN frame ELSE FilterStatus(frame, sel), s, e)

\* chart_df.groupby(group_cols, as_index=False).agg(...)
SettlementGrouped(chart_df, is_combined) ==
    IF is_combined
    THEN LET keys == MonthKeys(chart_df)
         IN  [k \in 1..Len(keys) |->
                 LET a == SettlementAgg(RowsOfMonth(chart_df, keys[k]))
                 IN  [year_month |-> Ts(keys[k]),
                      vol_tariff_amount |-> a.vol_tariff_amount,
                      avg_tariff_amount |-> a.avg_tariff_amount,
                      vol_non_tariff    |-> a.vol_non_tariff,
                      avg_non_tariff    |-> a.avg_non_tariff,
                      vol_tariff_uplift |-> a.vol_tariff_uplift,
                      avg_tariff_uplift |-> a.avg_tariff_uplift]]
    ELSE LET keys == StatusKeys(chart_df)
         IN  [k \in 1..Len(keys) |->
                 LET a == SettlementAgg(RowsOfKey(chart_df, keys[k].month, keys[k].status))
                 IN  [year_month |-> Ts(keys[k].month),
                      representation_status |-> keys[k].status,
                      vol_tariff_amount |-> a.vol_tariff_amount,
                      avg_tariff_amount |-> a.avg_tariff_amount,
                      vol_non_tariff    |-> a.vol_non_tariff,
                      avg_non_tariff    |-> a.avg_non_tariff,
                      vol_tariff_uplift |-> a.vol_tariff_uplift,
                      avg_tariff_uplift |-> a.avg_tariff_uplift]]

settlement_analysis_page ==
    /\ page = "none"
    /\ cache = "warm"
    /\ df # <<>>
    /\ \E sel \in Selections, quick_pick \in QuickPicks :
       \E slider \in SliderValues(quick_pick) :
          LET f == filters_ui(df, sel, quick_pick, slider)
              chart_df == SettlementChartRows(df, f.selected_rep, f.combined,
                                              f.start_date, f.end_date)
          IN  /\ page' = "Settlement Analysis"
              /\ quick_date_range' = quick_pick
              /\ selected_rep' = f.selected_rep
              /\ combined' = f.combined
              /\ start_date' = f.start_date
              /\ end_date' = f.end_date
              /\ filtered_df' = chart_df
              /\ plot_df' = SettlementGrouped(chart_df, f.combined)
              /\ summary' = NoSummary
    /\ UNCHANGED <<source, cache, df, dfp, selected_lobs, raised>>

-----------------------------------------------------------------------------
(* Litigation_analysis_page *)

\* the row lambda of the litigation_pct column
litigation_pct(row) ==
    IF (row.exit_court + row.settlement_volume) > 0
    THEN TrueDiv(row.exit_court, row.exit_court + row.settlement_volume)
    ELSE Zero

\* groupby("year_month").agg(sums), then the litigation_pct column
LitGroupByMonth(frame) ==
    LET keys == MonthKeys(frame)
    IN  [k \in 1..Len(keys) |->
            LET g == RowsOfMonth(frame, keys[k])
                r == [settlement_volume |-> ColSum(g, "settlement_volume"),
                      exit_court |-> ColSum(g, "exit_court")]
            IN  [year_month |-> Ts(keys[k]),
                 settlement_volume |-> r.settlement_volume,
                 exit_court |-> r.exit_court,
                 litigation_pct |-> litigation_pct(r)]]

\* groupby(["year_month", "representation_status"]).agg(sums), then litigation_pct
LitGroupByStatus(frame) ==
    LET keys == StatusKeys(frame)
    IN  [k \in 1..Len(keys) |->
            LET g == RowsOfKey(frame, keys[k].month, keys[k].status)
                r == [settlement_volume |-> ColSum(g, "settlement_volume"),
                      exit_court |-> ColSum(g, "exit_court")]
            IN  [year_month |-> Ts(keys[k].month),
                 representation_status |-> keys[k].status,
                 settlement_volume |-> r.settlement_volume,
                 exit_court |-> r.exit_court,
                 litigation_pct |-> litigation_pct(r)]]

\* set_index("year_month").reindex(date_range, fill_value=0)
LitReindexMonths(grouped, months) ==
    [k \in 1..Len(months) |->
        IF \E i \in 1..Len(grouped) : grouped[i].year_month = months[k]
        THEN grouped[CHOOSE i \in 1..Len(grouped) : grouped[i].year_month = months[k]]
        ELSE [year_month |-> months[k], settlement_volume |-> 0, exit_court |-> 0,
              litigation_pct |-> Zero]]

\* set_index(["year_month", "representation_status"]).reindex(full_index, fill_value=0)
LitReindexProduct(grouped, full_index) ==
    [k \in 1..Len(full_index) |->
        LET Hit(i) == /\ grouped[i].year_month = Ts(full_index[k].month)
                      /\ grouped[i].representation_status = full_index[k].status
        IN  IF \E i \in 1..Len(grouped) : Hit(i)
            THEN grouped[CHOOSE i \in 1..Len(grouped) : Hit(i)]
            ELSE [year_month |-> Ts(full_index[k].month),
                  representation_status |-> full_index[k].status,
                  settlement_volume |-> 0, exit_court |-> 0,
                  litigation_pct |-> Zero]]

\* the combined branch
LitCombinedFrame(frame, s, e) ==
    LitReindexMonths(FilterWindow(LitGroupByMonth(frame), s, e), date_range(s, e))

\* the per-status branch
LitStatusFrame(frame, sel, s, e) ==
    LitReindexProduct(LitGroupByStatus(FilterWindow(FilterStatus(frame, sel), s, e)),
                      Product(date_range(s, e), SelList(sel)))

Litigation_analysis_page ==
    /\ page = "none"
    /\ cache = "warm"
    /\ df # <<>>
    /\ \E sel \in Selections, quick_pick \in QuickPicks :
       \E slider \in SliderValues(quick_pick) :
          LET f == filters_ui(df, sel, quick_pick, slider)
              is_combined == f.combined \/ Cardinality(f.selected_rep) = 0
          IN  /\ page' = "Litigation Analysis"
              /\ quick_date_range' = quick_pick
              /\ selected_rep' = f.selected_rep
              /\ combined' = f.combined
              /\ start_date' = f.start_date
              /\ end_date' = f.end_date
              /\ filtered_df' = <<>>
              /\ plot_df' = IF is_combined
                            THEN LitCombinedFrame(df, f.start_date, f.end_date)
                            ELSE LitStatusFrame(df, f.selected_rep, f.start_date, f.end_date)
              /\ summary' = NoSummary
    /\ UNCHANGED <<source, cache, df, dfp, selected_lobs, raised>>

-----------------------------------------------------------------------------
(* The dashboard pages over one loaded file *)

\* a widget is touched: Streamlit runs the script again from its first line,
\* with the cached frames and none of the previous run's locals
rerun ==
    /\ page # "none"
    /\ page' = "none"
    /\ quick_date_range' = "none"
    /\ selected_rep' = {}
    /\ combined' = FALSE
    /\ selected_lobs' = {}
    /\ start_date' = NoDate
    /\ end_date' = NoDate
    /\ filtered_df' = <<>>
    /\ plot_df' = <<>>
    /\ summary' = NoSummary
    /\ UNCHANGED <<source, cache, df, dfp, raised>>

NoSource == [columns |-> {}, rows |-> <<>>]

Init ==
    /\ source = NoSource
    /\ cache = "warm"
    /\ \E file \in DashCsvFiles : df = get_data(file)
    /\ dfp = <<>>
    /\ page = "none"
    /\ quick_date_range = "none"
    /\ selected_rep = {}
    /\ combined = FALSE
    /\ selected_lobs = {}
    /\ start_date = NoDate
    /\ end_date = NoDate
    /\ filtered_df = <<>>
    /\ plot_df = <<>>
    /\ summary = NoSummary
    /\ raised = "none"

Next ==
    \/ home_page
    \/ settlement_analysis_page
    \/ Litigation_analysis_page
    \/ rerun

Spec == Init /\ [][Next]_vars

-----------------------------------------------------------------------------
(* The Claims Portal frame (assets/el_portal.csv, pl_portal.csv, motor_portal.csv) *)

MaxPortalRows == 2

\* the lines of business, in the order sort_values / groupby list them
LobOrder == <<"EL", "Motor", "PL">>
Lobs == { LobOrder[i] : i \in 1..Len(LobOrder) }
LobRank(lob) == CHOOSE i \in 1..Len(LobOrder) : LobOrder[i] = lob

\* the count columns of a portal row
sum_cols_all ==
    {"new_claim", "stage_1_exit", "stage_2_exit", "exit_process", "court_pack",
     "settled_claims"}

\* the metric cells of one loaded portal row
PortalMetrics ==
    { [new_claim |-> 2, stage_1_exit |-> 1, stage_2_exit |-> 0, exit_process |-> 1,
       court_pack |-> 1, settled_claims |-> 1, general_damages |-> 3],
      [new_claim |-> 1, stage_1_exit |-> 0, stage_2_exit |-> 1, exit_process |-> 0,
       court_pack |-> 0, settled_claims |-> 2, general_damages |-> 1],
      [new_claim |-> 1, stage_1_exit |-> 0, stage_2_exit |-> 0, exit_process |-> 0,
       court_pack |-> 0, settled_claims |-> 0, general_damages |-> 2] }

PortalRow(lob, m, c) ==
    [lob |-> lob, year_month |-> Ts(m),
     new_claim |-> c.new_claim, stage_1_exit |-> c.stage_1_exit,
     stage_2_exit |-> c.stage_2_exit, exit_process |-> c.exit_process,
     court_pack |-> c.court_pack, settled_claims |-> c.settled_claims,
     general_damages |-> c.general_damages]

PortalRows == { PortalRow(lob, m, c) : lob \in Lobs, m \in Months, c \in PortalMetrics }

\* sort_values(["lob", "year_month"])
LobKeyLE(a, b) ==
    \/ LobRank(a.lob) < LobRank(b.lob)
    \/ a.lob = b.lob /\ DateLE(a.year_month, b.year_month)

\* get_portal_all: the three loaded files, concatenated and sorted by LoB and month
PortalFrames ==
    { f \in UNION { [1..n -> PortalRows] : n \in 1..MaxPortalRows } :
        \A i \in 1..(Len(f) - 1) : LobKeyLE(f[i], f[i + 1]) }

-----------------------------------------------------------------------------
(* _complete_months_per_lob *)

RowsOfLob(frame, lob) == LET Keep(r) == r.lob = lob IN SelectSeq(frame, Keep)

\* (g["_gd_total"] / g["settled_claims"].replace(0, pd.NA)).fillna(0.0)
GdPerSettled(gd_total, settled) ==
    IF settled = 0 THEN Zero ELSE TrueDiv(gd_total, settled)

\* sum of general_damages * settled_claims over a group: the _gd_total column
GdTotal(g) ==
    SeqSum([i \in 1..Len(g) |-> g[i].general_damages * g[i].settled_claims])

\* variant: general_damages as the plain mean of the group's rows
CollapseMonthsMeanDamages(g) ==
    LET keys == MonthKeys(g)
    IN  [k \in 1..Len(keys) |->
            LET rows == RowsOfMonth(g, keys[k])
            IN  [year_month |-> Ts(keys[k]),
                 new_claim |-> ColSum(rows, "new_claim"),
                 stage_1_exit |-> ColSum(rows, "stage_1_exit"),
                 stage_2_exit |-> ColSum(rows, "stage_2_exit"),
                 exit_process |-> ColSum(rows, "exit_process"),
                 court_pack |-> ColSum(rows, "court_pack"),
                 settled_claims |-> ColSum(rows, "settled_claims"),
                 general_damages |-> TrueDiv(ColSum(rows, "general_damages"), Len(rows))]]

\* variant: each month keeps the last of its rows instead of their sums
CollapseMonthsKeepLast(g) ==
    LET keys == MonthKeys(g)
    IN  [k \in 1..Len(keys) |->
            LET rows == RowsOfMonth(g, keys[k])
                r    == rows[Len(rows)]
            IN  [year_month |-> Ts(keys[k]),
                 new_claim |-> r.new_claim, stage_1_exit |-> r.stage_1_exit,
                 stage_2_exit |-> r.stage_2_exit, exit_process |-> r.exit_process,
                 court_pack |-> r.court_pack, settled_claims |-> r.settled_claims,
                 general_damages |-> GdPerSettled(GdTotal(<<r>>), r.settled_claims)]]

\* g.groupby("year_month", as_index=False).agg(agg_map), then general_damages
\* from _gd_total: one row per month the LoB has rows for
CollapseMonths(g) ==
    LET keys == MonthKeys(g)
    IN  [k \in 1..Len(keys) |->
            LET rows == RowsOfMonth(g, keys[k])
                settled == ColSum(rows, "settled_claims")
            IN  [year_month |-> Ts(keys[k]),
                 new_claim |-> ColSum(rows, "new_claim"),
                 stage_1_exit |-> ColSum(rows, "stage_1_exit"),
                 stage_2_exit |-> ColSum(rows, "stage_2_exit"),
                 exit_process |-> ColSum(rows, "exit_process"),
                 court_pack |-> ColSum(rows, "court_pack"),
                 settled_claims |-> settled,
                 general_damages |-> GdPerSettled(GdTotal(rows), settled)]]

\* variant: the collapsed months with the LoB written in, no row for a gap
ReindexLobNoGaps(g, lob) ==
    [k \in 1..Len(g) |->
        [lob |-> lob, year_month |-> g[k].year_month,
         new_claim |-> g[k].new_claim, stage_1_exit |-> g[k].stage_1_exit,
         stage_2_exit |-> g[k].stage_2_exit, exit_process |-> g[k].exit_process,
         court_pack |-> g[k].court_pack, settled_claims |-> g[k].settled_claims,
         general_damages |-> g[k].general_damages]]

\* pd.date_range(min, max, freq="MS"), reindex, fillna(0), g["lob"] = lob
ReindexLob(g, lob) ==
    LET months == date_range(MinDate(g), MaxDate(g))
    IN  [k \in 1..Len(months) |->
            IF \E i \in 1..Len(g) : g[i].year_month = months[k]
            THEN LET r == g[CHOOSE i \in 1..Len(g) : g[i].year_month = months[k]]
                 IN  [lob |-> lob, year_month |-> r.year_month,
                      new_claim |-> r.new_claim, stage_1_exit |-> r.stage_1_exit,
                      stage_2_exit |-> r.stage_2_exit, exit_process |-> r.exit_process,
                      court_pack |-> r.court_pack, settled_claims |-> r.settled_claims,
                      general_damages |-> r.general_damages]
            ELSE [lob |-> lob, year_month |-> months[k],
                  new_claim |-> 0, stage_1_exit |-> 0, stage_2_exit |-> 0,
                  exit_process |-> 0, court_pack |-> 0, settled_claims |-> 0,
                  general_damages |-> Zero]]

\* the LoBs df.groupby("lob") iterates over, in its order
LobKeys(frame) ==
    LET Keep(lob) == \E i \in 1..Len(frame) : frame[i].lob = lob
    IN  SelectSeq(LobOrder, Keep)

\* pd.concat(pieces, ignore_index=True)
RECURSIVE Concat(_)
Concat(pieces) == IF pieces = <<>> THEN <<>> ELSE Head(pieces) \o Concat(Tail(pieces))

_complete_months_per_lob(frame) ==
    IF frame = <<>> THEN frame
    ELSE LET lobs == LobKeys(frame)
         IN  Concat([k \in 1..Len(lobs) |->
                        ReindexLob(CollapseMonths(RowsOfLob(frame, lobs[k])), lobs[k])])

-----------------------------------------------------------------------------
(* claims_portal_page *)

\* a * n for a fraction a and an integer n
RatTimes(a, n) == TrueDiv(a.num * n, a.den)

\* (view["general_damages"] * view["settled_claims"]).sum()
RECURSIVE DamagesTimesSettled(_)
DamagesTimesSettled(view) ==
    IF view = <<>> THEN Zero
    ELSE RatAdd(RatTimes(Head(view).general_damages, Head(view).settled_claims),
                 DamagesTimesSettled(Tail(view)))

\* a / n for a fraction a and an integer n # 0
RatOver(a, n) == TrueDiv(a.num, a.den * n)

\* the window of the page: the slider's pair, or the quick pick's
PortalWindow(frame, quick, slider) ==
    LET min_date == MinDate(frame)
        max_date == MaxDate(frame)
        start_dt == MonthStart(MinusMonths(max_date, QuickMonths(quick)))
    IN  IF quick = "Custom" THEN slider
        ELSE <<IF DateLE(start_dt, min_date) THEN min_date ELSE start_dt, max_date>>

\* view = dfp.loc[mask].copy().sort_values(["lob", "year_month"])
PortalMask(frame, lobs, s, e) ==
    LET Keep(r) == r.lob \in lobs /\ DateLE(s, r.year_month) /\ DateLE(r.year_month, e)
    IN  SelectSeq(frame, Keep)

\* the four KPIs of the Summary row
PortalSummary(view) ==
    LET denom == ColSum(view, "settled_claims")
        exits == ColSum(view, "stage_1_exit") + ColSum(view, "stage_2_exit")
                    + ColSum(view, "exit_process") + ColSum(view, "court_pack")
        total_outcomes == denom + exits
    IN  [new_claim |-> ColSum(view, "new_claim"),
         settled_claims |-> denom,
         avg_gd |-> IF denom # 0 THEN RatOver(DamagesTimesSettled(view), denom) ELSE Zero,
         lit_pct |-> IF total_outcomes # 0
                     THEN TrueDiv(ColSum(view, "court_pack"), total_outcomes) ELSE Zero]

claims_portal_page ==
    /\ page = "none"
    /\ cache = "warm"
    /\ dfp # <<>>
    /\ \E lobs \in SUBSET Lobs, quick \in QuickPicks :
       \E slider \in SliderValues(quick) :
          LET w == PortalWindow(dfp, quick, slider)
              masked == PortalMask(dfp, lobs, w[1], w[2])
              view == _complete_months_per_lob(masked)
          IN  /\ page' = "Claims Portal"
              /\ quick_date_range' = quick
              /\ selected_lobs' = lobs
              /\ start_date' = w[1]
              /\ end_date' = w[2]
              /\ filtered_df' = masked
              /\ plot_df' = view
              /\ summary' = PortalSummary(view)
    /\ UNCHANGED <<source, cache, df, dfp, selected_rep, combined, raised>>

-----------------------------------------------------------------------------
(* Properties of the dashboard pages *)

\* the selection asks for the combined series
CombinedSelected == selected_rep = {} \/ "Combined" \in selected_rep

\* the months of the closed window [start_date, end_date]
WindowMonths == start_date.month..end_date.month

\* the columns a page sums
SummedCols(p) ==
    IF p = "Home" THEN {"claims_volume", "settlement_volume", "total_settlement_value"}
    ELSE IF p = "Litigation Analysis" THEN {"settlement_volume", "exit_court"}
    ELSE {"vol_tariff_amount", "vol_non_tariff", "vol_tariff_uplift"}

\* the derived ratio column of a page
RatioCol(p) == IF p = "Home" THEN "weighted_avg_settlement" ELSE "litigation_pct"

\* the positions of a frame that carry month m / the key (m, c)
RowsAt(frame, m) == { i \in DOMAIN frame : frame[i].year_month = Ts(m) }
RowsAtKey(frame, m, c) ==
    { i \in DOMAIN frame : /\ frame[i].year_month = Ts(m)
                           /\ frame[i].representation_status = c }

\* the sum of a column over the positions I of a frame
RECURSIVE SumAt(_, _, _)
SumAt(frame, col, I) ==
    IF I = {} THEN 0
    ELSE LET i == CHOOSE x \in I : TRUE
         IN  frame[i][col] + SumAt(frame, col, I \ {i})

\* C1: on the Home and Litigation pages, for a window with start <= end, the
\* series handed to the charts has exactly one row per month of the window
\* (combined) or per (month, selected status), none missing and none twice,
\* and a row with no source rows has every summed metric equal to 0.
C1_OneRowPerMonthAndCategory ==
    (page \in {"Home", "Litigation Analysis"} /\ DateLE(start_date, end_date)) =>
        IF CombinedSelected
        THEN /\ Len(plot_df) = Cardinality(WindowMonths)
             /\ \A m \in WindowMonths :
                  \E i \in DOMAIN plot_df :
                     /\ RowsAt(plot_df, m) = {i}
                     /\ "representation_status" \notin DOMAIN plot_df[i]
                     /\ RowsAt(df, m) = {} =>
                           \A col \in SummedCols(page) : plot_df[i][col] = 0
        ELSE /\ Len(plot_df) = Cardinality(WindowMonths) * Cardinality(selected_rep)
             /\ \A m \in WindowMonths, c \in selected_rep :
                  \E i \in DOMAIN plot_df :
                     /\ RowsAtKey(plot_df, m, c) = {i}
                     /\ RowsAtKey(df, m, c) = {} =>
                           \A col \in SummedCols(page) : plot_df[i][col] = 0

\* C1 witness: a per-status series over two months with a gap-filled row and
\* a row that carries data
C1_Witness ==
    /\ page = "Home"
    /\ selected_rep = {"Represented", "Unrepresented"}
    /\ start_date = Ts(1) /\ end_date = Ts(2)
    /\ Len(plot_df) = 4
    /\ \E i \in DOMAIN plot_df :
          /\ RowsAtKey(df, plot_df[i].year_month.month, plot_df[i].representation_status) = {}
          /\ plot_df[i].claims_volume = 0
    /\ \E i \in DOMAIN plot_df : plot_df[i].claims_volume > 0

\* C2: every row of the Home series, gap-filled rows included, carries
\* weighted_avg_settlement = total_settlement_value / settlement_volume of its
\* own sums when settlement_volume > 0 and exactly 0 otherwise, never NaN.
C2_WeightedAvgOfSums ==
    page = "Home" =>
        \A i \in DOMAIN plot_df :
           LET r == plot_df[i]
               q == r.weighted_avg_settlement
           IN  /\ ~IsNaN(q)
               /\ IF r.settlement_volume > 0
                  THEN q.num * r.settlement_volume = r.total_settlement_value * q.den
                  ELSE q = Zero

\* C2 witness: a Home series holding a row with settlements, whose average is
\* not 0, next to a gap-filled row
C2_Witness ==
    /\ page = "Home"
    /\ \E i \in DOMAIN plot_df :
          /\ plot_df[i].settlement_volume > 0
          /\ plot_df[i].weighted_avg_settlement # Zero
    /\ \E i \in DOMAIN plot_df :
          /\ RowsAt(df, plot_df[i].year_month.month) = {}
          /\ plot_df[i].settlement_volume = 0
          /\ plot_df[i].weighted_avg_settlement = Zero

\* the rows of df that a selection and a window let through: all statuses
\* when the combined series is asked for, the selected ones otherwise
PassingRows ==
    LET Pass(r) == /\ InWindow(r.year_month, start_date, end_date)
                   /\ CombinedSelected \/ r.representation_status \in selected_rep
    IN  SelectSeq(df, Pass)

\* C3: on the Home, Settlement Analysis and Litigation pages an empty
\* selection or one holding "Combined" lets the rows of every status take
\* part and groups by month only; any other selection lets exactly the rows
\* of the selected statuses take part.
C3_CategoryFilter ==
    page \in {"Home", "Settlement Analysis", "Litigation Analysis"} =>
        /\ \A i \in DOMAIN plot_df :
              ("representation_status" \notin DOMAIN plot_df[i]) <=> CombinedSelected
        /\ \A m \in Months, col \in SummedCols(page) :
              IF CombinedSelected
              THEN SumAt(plot_df, col, RowsAt(plot_df, m))
                      = SumAt(PassingRows, col, RowsAt(PassingRows, m))
              ELSE \A c \in RepStatuses :
                      SumAt(plot_df, col, RowsAtKey(plot_df, m, c))
                         = SumAt(PassingRows, col, RowsAtKey(PassingRows, m, c))

\* the volume / average column pairs of the Settlement Analysis page
TariffPairs ==
    { [vol |-> "vol_tariff_amount", avg |-> "avg_tariff_amount"],
      [vol |-> "vol_non_tariff",    avg |-> "avg_non_tariff"],
      [vol |-> "vol_tariff_uplift", avg |-> "avg_tariff_uplift"] }

\* the sum of a[i] * b[i] over the positions I of a frame
RECURSIVE SumProdAt(_, _, _, _)
SumProdAt(frame, a, b, I) ==
    IF I = {} THEN 0
    ELSE LET i == CHOOSE x \in I : TRUE
         IN  frame[i][a] * frame[i][b] + SumProdAt(frame, a, b, I \ {i})

\* C4: each average of a Settlement Analysis group is the average of its rows
\* weighted by the companion volume: sum(avg_i * vol_i) / sum(vol_i).
C4_VolumeWeightedAverages ==
    page = "Settlement Analysis" =>
        \A i \in DOMAIN plot_df :
           LET r == plot_df[i]
               I == IF "representation_status" \in DOMAIN r
                    THEN RowsAtKey(filtered_df, r.year_month.month, r.representation_status)
                    ELSE RowsAt(filtered_df, r.year_month.month)
           IN  \A pair \in TariffPairs :
                  LET vol == SumAt(filtered_df, pair.vol, I)
                      tot == SumProdAt(filtered_df, pair.avg, pair.vol, I)
                  IN  vol > 0 => /\ ~IsNaN(r[pair.avg])
                                 /\ r[pair.avg].num * vol = tot * r[pair.avg].den

\* C7: on the Home page, with every status of the data selected, the
\* per-status rows of a month add up, metric by metric, to the row the
\* combined series has for that month over the same window.
C7_CategoriesSumToCombined ==
    (/\ page = "Home"
     /\ ~CombinedSelected
     /\ { df[i].representation_status : i \in DOMAIN df } \subseteq selected_rep) =>
        LET comb == HomeCombinedFrame(df, start_date, end_date)
        IN  \A m \in WindowMonths, col \in SummedCols("Home") :
               \E j \in RowsAt(comb, m) :
                  SumAt(plot_df, col, RowsAt(plot_df, m)) = comb[j][col]

\* C7 witness: a month where both statuses have settlements and the two
\* per-status averages do not add up to the combined average
C7_Witness ==
    /\ page = "Home"
    /\ selected_rep = RepStatuses
    /\ LET comb == HomeCombinedFrame(df, start_date, end_date)
       IN  \E m \in WindowMonths :
              \E i \in RowsAtKey(plot_df, m, "Represented"),
                 j \in RowsAtKey(plot_df, m, "Unrepresented"),
                 k \in RowsAt(comb, m) :
                 /\ plot_df[i].settlement_volume > 0
                 /\ plot_df[j].settlement_volume > 0
                 /\ comb[k].settlement_volume
                       = plot_df[i].settlement_volume + plot_df[j].settlement_volume
                 /\ RatAdd(plot_df[i].weighted_avg_settlement,
                           plot_df[j].weighted_avg_settlement)
                       # comb[k].weighted_avg_settlement

C10_SummaryTotals ==
    page = "Home" =>
        /\ \A col \in SummedCols("Home") :
              /\ summary[col] = ColSum(PassingRows, col)
              /\ summary[col] = ColSum(plot_df, col)
        /\ ~IsNaN(summary.avg_settlement)
        /\ IF summary.settlement_volume > 0
           THEN summary.avg_settlement.num * summary.settlement_volume
                   = summary.total_settlement_value * summary.avg_settlement.den
           ELSE summary.avg_settlement = Zero

\* C10 witness: a per-status Summary with settlements while one row of the
\* data is kept out by the status filter or by the window
C10_Witness ==
    /\ page = "Home"
    /\ ~CombinedSelected
    /\ Len(PassingRows) < Len(df)
    /\ \E i \in DOMAIN df : ~InWindow(df[i].year_month, start_date, end_date)
    /\ summary.settlement_volume > 0
    /\ summary.avg_settlement # Zero

-----------------------------------------------------------------------------
(* Properties of the Claims Portal page; filtered_df is the masked, sorted *)
(* frame handed to _complete_months_per_lob and plot_df the view it returns *)

\* the positions of a portal frame that carry the key (lob, m)
RowsAtLob(frame, lob, m) ==
    { i \in DOMAIN frame : frame[i].lob = lob /\ frame[i].year_month = Ts(m) }

\* C5: _complete_months_per_lob turns the rows that share one (lob, month)
\* into one row: every count is their sum and general_damages is
\* sum(general_damages_i * settled_claims_i) / sum(settled_claims_i) when that
\* weight total is > 0 and exactly 0 when it is 0.
C5_DuplicateCollapse ==
    page = "Claims Portal" =>
        \A lob \in Lobs, m \in Months :
           LET I == RowsAtLob(filtered_df, lob, m)
               w == SumAt(filtered_df, "settled_claims", I)
               t == SumProdAt(filtered_df, "general_damages", "settled_claims", I)
           IN  I # {} =>
                  \E j \in DOMAIN plot_df :
                     /\ RowsAtLob(plot_df, lob, m) = {j}
                     /\ \A col \in sum_cols_all :
                           plot_df[j][col] = SumAt(filtered_df, col, I)
                     /\ ~IsNaN(plot_df[j].general_damages)
                     /\ w > 0 => plot_df[j].general_damages.num * w
                                    = t * plot_df[j].general_damages.den
                     /\ w = 0 => plot_df[j].general_damages = Zero

\* C5 witness: two rows of one (lob, month) with settlements, whose weighted
\* general_damages differs from the plain mean of the two
C5_Witness ==
    /\ page = "Claims Portal"
    /\ \E lob \in Lobs, m \in Months :
          LET I == RowsAtLob(filtered_df, lob, m)
          IN  /\ Cardinality(I) = 2
              /\ SumAt(filtered_df, "settled_claims", I) > 0
              /\ \E j \in RowsAtLob(plot_df, lob, m) :
                    /\ plot_df[j].new_claim = SumAt(filtered_df, "new_claim", I)
                    /\ plot_df[j].general_damages
                          # TrueDiv(SumAt(filtered_df, "general_damages", I), 2)

\* C6: the gap-filled view of the Claims Portal page has a row for every
\* month of the window for every selected line of business, all metrics 0
\* where the data has no row, also before a LoB's first and after its last
\* data month and for a selected LoB without rows in the window.  (The months
\* of the window are taken as those whose first day lies in it.)
C6_PortalGridComplete ==
    page = "Claims Portal" =>
        \A lob \in selected_lobs, m \in Months :
           InWindow(Ts(m), start_date, end_date) =>
              \E j \in DOMAIN plot_df :
                 /\ RowsAtLob(plot_df, lob, m) = {j}
                 /\ RowsAtLob(dfp, lob, m) = {} =>
                       /\ \A col \in sum_cols_all : plot_df[j][col] = 0
                       /\ plot_df[j].general_damages = Zero

-----------------------------------------------------------------------------
(* The Claims Portal page over the loaded portal files *)

InitPortal ==
    /\ source = NoSource
    /\ cache = "warm"
    /\ df = <<>>
    /\ dfp \in PortalFrames
    /\ page = "none"
    /\ quick_date_range = "none"
    /\ selected_rep = {}
    /\ combined = FALSE
    /\ selected_lobs = {}
    /\ start_date = NoDate
    /\ end_date = NoDate
    /\ filtered_df = <<>>
    /\ plot_df = <<>>
    /\ summary = NoSummary
    /\ raised = "none"

NextPortal ==
    \/ claims_portal_page
    \/ rerun

SpecPortal == InitPortal /\ [][NextPortal]_vars

-----------------------------------------------------------------------------
(* Loading a portal CSV file: load_portal_csv and its coercers.             *)
(* A cell is the text astype(str)/str(x) yields, as a sequence of           *)
(* characters; "NBSP", "NNBSP" and "THIN" stand for U+00A0, U+202F and      *)
(* U+2009, "GBP" for the pound sign.                                        *)

MaxFileRows == 2

Digits == <<"0", "1", "2", "3", "4", "5", "6", "7", "8", "9">>

IsDigit(c) == \E i \in 1..Len(Digits) : Digits[i] = c

DigitVal(c) == (CHOOSE i \in 1..Len(Digits) : Digits[i] = c) - 1

RECURSIVE IntOf(_)
\* the integer written by a sequence of digits
IntOf(t) == IF t = <<>> THEN 0 ELSE 10 * IntOf(SubSeq(t, 1, Len(t) - 1)) + DigitVal(t[Len(t)])

RECURSIVE Pow10(_)
Pow10(k) == IF k = 0 THEN 1 ELSE 10 * Pow10(k - 1)

\* str.replace(old, new) for a single character old and a text new
StrReplace(t, old, new) ==
    LET RECURSIVE Go(_)
        Go(u) == IF u = <<>> THEN <<>>
                 ELSE (IF Head(u) = old THEN new ELSE <<Head(u)>>) \o Go(Tail(u))
    IN  Go(t)

RECURSIVE LStrip(_)
LStrip(t) == IF t # <<>> /\ Head(t) = " " THEN LStrip(Tail(t)) ELSE t

RECURSIVE RStrip(_)
RStrip(t) == IF t # <<>> /\ t[Len(t)] = " " THEN RStrip(SubSeq(t, 1, Len(t) - 1)) ELSE t

\* str.strip(): leading and trailing white space goes, inner white space stays
StrStrip(t) == RStrip(LStrip(t))

NaN == [num |-> 0, den |-> 0]

\* the number a text denotes for pd.to_numeric and float(): an optional sign,
\* digits, at most one decimal point; NaN when the text is no number
ParseNumber(t) ==
    LET signed == t # <<>> /\ t[1] \in {"-", "+"}
        body   == IF signed THEN Tail(t) ELSE t
        NotDot(c) == c # "."
        digs   == SelectSeq(body, NotDot)
        dots   == { i \in 1..Len(body) : body[i] = "." }
        scale  == IF dots = {} THEN 0 ELSE Len(body) - (CHOOSE i \in dots : TRUE)
        ok     == /\ digs # <<>>
                  /\ \A i \in 1..Len(digs) : IsDigit(digs[i])
                  /\ Cardinality(dots) <= 1
        sgn    == IF signed /\ t[1] = "-" THEN -1 ELSE 1
    IN  IF ok THEN TrueDiv(sgn * IntOf(digs), Pow10(scale)) ELSE NaN

\* Series.replace({"": "0", "-": "0"}): whole values only
ReplaceBlankOrDash(t) == IF t = <<>> \/ t = <<"-">> THEN <<"0">> ELSE t

\* the chain of _clean_int_series before pd.to_numeric
CleanedText(t) ==
    ReplaceBlankOrDash(
        StrStrip(
            StrReplace(
                StrReplace(StrReplace(StrReplace(t, "NBSP", <<" ">>), "NNBSP", <<" ">>),
                           "THIN", <<" ">>),
                ",", <<>>)))

\* pd.to_numeric(cleaned, errors="coerce").fillna(0).astype(int), one cell
_clean_int_series(t) ==
    LET v == ParseNumber(CleanedText(t))
    IN  IF IsNaN(v) THEN 0
        ELSE IF v.num >= 0 THEN v.num \div v.den ELSE -((-v.num) \div v.den)

\* _coerce_money of a text cell: float() of the stripped text, or its ValueError
_coerce_money(t) ==
    LET v == ParseNumber(StrStrip(StrReplace(StrReplace(t, "GBP", <<>>), ",", <<>>)))
    IN  IF IsNaN(v) THEN [raised |-> "ValueError", value |-> Zero]
        ELSE [raised |-> "none", value |-> v]

\* an empty CSV cell, which read_csv gives as the float NaN
NA == <<"NaN">>

\* the cells of a count or money column in the files considered
CellTexts ==
    { <<"1", "2">>,
      <<"2", ",", "0", "0", "0">>,
      <<"2", "NBSP", "0", "0", "0">>,
      <<"2", "NNBSP", "0", "0", "0">>,
      <<"2", "THIN", "0", "0", "0">>,
      <<"NBSP", "7", " ">>,
      <<" ">>,
      <<"-">>,
      <<"n", "/", "a">>,
      <<"GBP", "1", ",", "2", "3", "4", ".", "5", "0">>,
      NA }

\* a period cell: the text of month m in MMM-YY form, or (month 0) a text that
\* no cleaning of _parse_period_to_ts_mmm_yy makes a MMM-YY date
PeriodCells == [month : Months \cup {0}]

NaT == [month |-> 0, day |-> 0]

\* _parse_period_to_ts_mmm_yy, one cell: the month start, NaT when coerced
_parse_period_to_ts_mmm_yy(p) == IF p.month = 0 THEN NaT ELSE Ts(p.month)

\* the header spellings of the files considered and
\* c.strip().lower().replace(" ", "_") of each
HeaderNames ==
    [ Period |-> "period", NewClaim |-> "new_claim", Settled |-> "settled", GD |-> "gd" ]

DataHeaders == {"NewClaim", "Settled", "GD"}

col_map ==
    << <<"stage1_exit", "stage_1_exit">>, <<"stage2_exit", "stage_2_exit">>,
       <<"courtpack", "court_pack">>, <<"gd", "general_damages">>,
       <<"general_damage", "general_damages">>, <<"settled", "settled_claims">>,
       <<"settled_claim", "settled_claims">>, <<"new_cnf", "new_claim">>,
       <<"new_cnfs", "new_claim">> >>

RECURSIVE ApplyColMap(_, _)
\* for src, dst in col_map.items(): rename src to dst unless dst is there;
\* names maps each header of the file to its current column name
ApplyColMap(names, k) ==
    IF k > Len(col_map) THEN names
    ELSE LET src == col_map[k][1]
             dst == col_map[k][2]
             cur == { names[h] : h \in DOMAIN names }
         IN  ApplyColMap(IF src \in cur /\ dst \notin cur
                         THEN [h \in DOMAIN names |-> IF names[h] = src THEN dst ELSE names[h]]
                         ELSE names,
                         k + 1)

ColumnNames(columns) == ApplyColMap([h \in columns |-> HeaderNames[h]], 1)

num_cols ==
    <<"new_claim", "stage_1_exit", "stage_2_exit", "exit_process", "court_pack",
      "settled_claims">>

\* the rows of a file with these header columns
SourceRows(columns) ==
    { [h \in columns |-> IF h = "Period" THEN p ELSE c] : p \in PeriodCells, c \in CellTexts }

\* the headers: the period column and one data column, or no period column
SourceHeaders == { {"Period", d} : d \in DataHeaders } \cup { {"NewClaim"} }

\* the orders sort_values("year_month") may leave rows of one month in
SortedByMonth(rows) ==
    { [i \in 1..Len(rows) |-> rows[p[i]]] : p \in
        { q \in Permutations(1..Len(rows)) :
            \A i, j \in 1..Len(rows) :
                i < j => rows[q[i]].year_month.month <= rows[q[j]].year_month.month } }

\* load_portal_csv(path, lob): the exception it raises, or the frames it may return
load_portal_csv(file, lob) ==
    LET names  == ColumnNames(file.columns)
        cols   == { names[h] : h \in DOMAIN names }
        Header(c) == CHOOSE h \in DOMAIN names : names[h] = c
        n      == Len(file.rows)
        Count(i, c) == IF c \in cols THEN _clean_int_series(file.rows[i][Header(c)]) ELSE 0
        Money(i) == IF "general_damages" \notin cols \/ file.rows[i][Header("general_damages")] = NA
                    THEN [raised |-> "none", value |-> Zero]
                    ELSE _coerce_money(file.rows[i][Header("general_damages")])
        Loaded(i) ==
            [lob |-> lob,
             year_month |-> _parse_period_to_ts_mmm_yy(file.rows[i][Header("period")]),
             new_claim |-> Count(i, "new_claim"), stage_1_exit |-> Count(i, "stage_1_exit"),
             stage_2_exit |-> Count(i, "stage_2_exit"), exit_process |-> Count(i, "exit_process"),
             court_pack |-> Count(i, "court_pack"), settled_claims |-> Count(i, "settled_claims"),
             general_damages |-> Money(i).value]
        all    == [i \in 1..n |-> Loaded(i)]
        Keep(r) == r.year_month # NaT
    IN  IF "period" \notin cols \/ \E i \in 1..n : Money(i).raised # "none"
        THEN [raised |-> "ValueError", frames |-> {<<>>}]
        ELSE [raised |-> "none", frames |-> SortedByMonth(SelectSeq(all, Keep))]

\* a cold call of the cached loader of one line of business
load ==
    /\ cache = "cold"
    /\ raised = "none"
    /\ \E lob \in {"EL"} :
         LET out == load_portal_csv(source, lob)
         IN  /\ raised' = out.raised
             /\ cache' = IF out.raised = "none" THEN "warm" ELSE "cold"
             /\ dfp' \in out.frames
    /\ UNCHANGED <<source, df, page, quick_date_range, selected_rep, combined, selected_lobs,
                   start_date, end_date, filtered_df, plot_df, summary>>

InitLoader ==
    /\ \E columns \in SourceHeaders, n \in 0..MaxFileRows :
          \E rows \in [1..n -> SourceRows(columns)] :
              source = [columns |-> columns, rows |-> rows]
    /\ cache = "cold"
    /\ df = <<>>
    /\ dfp = <<>>
    /\ page = "none"
    /\ quick_date_range = "none"
    /\ selected_rep = {}
    /\ combined = FALSE
    /\ selected_lobs = {}
    /\ start_date = NoDate
    /\ end_date = NoDate
    /\ filtered_df = <<>>
    /\ plot_df = <<>>
    /\ summary = NoSummary
    /\ raised = "none"

NextLoader == load

SpecLoader == InitLoader /\ [][NextLoader]_vars

-----------------------------------------------------------------------------
(* Properties of the loader *)

Separators == {",", "NBSP", "NNBSP", "THIN"}

\* digit groups with single thousands separators between them
IsGroupedInteger(t) ==
    /\ t # <<>>
    /\ IsDigit(t[1]) /\ IsDigit(t[Len(t)])
    /\ \A k \in 1..Len(t) : IsDigit(t[k]) \/ t[k] \in Separators
    /\ \A k \in 1..(Len(t) - 1) : ~(t[k] \in Separators /\ t[k + 1] \in Separators)

\* the integer the digits of a grouped integer write
Denoted(t) == IntOf(SelectSeq(t, IsDigit))

IsBlank(t) == \A k \in 1..Len(t) : t[k] = " "

\* the count columns of the loaded file and the header each came from
CountHeaders ==
    { h \in source.columns :
        \E k \in 1..Len(num_cols) : ColumnNames(source.columns)[h] = num_cols[k] }

MoneyHeaders ==
    { h \in source.columns : ColumnNames(source.columns)[h] = "general_damages" }

LoadedAt(m, col, v) ==
    \E j \in 1..Len(dfp) : dfp[j].year_month = Ts(m) /\ dfp[j][col] = v

\* C11: after a load, every count cell written as an integer with thousands
\* separators (commas, U+00A0, U+202F or U+2009 between digit groups) is loaded
\* as the integer it denotes, and an empty cell or "-" is loaded as 0.
C11_SeparatedCountsDenote ==
    cache = "warm" =>
        \A i \in 1..Len(source.rows) : \A h \in CountHeaders :
            LET c   == source.rows[i][h]
                m   == source.rows[i]["Period"].month
                col == ColumnNames(source.columns)[h]
            IN  m # 0 =>
                  /\ IsGroupedInteger(c) => LoadedAt(m, col, Denoted(c))
                  /\ (IsBlank(c) \/ c = <<"-">>) => LoadedAt(m, col, 0)

\* a cell that is not empty and is no number once separators, currency sign and
\* white space are taken out
IsMalformed(c) ==
    LET Kept(ch) == ch \notin Separators \cup {" ", "GBP"}
        rest == SelectSeq(c, Kept)
    IN  c # NA /\ rest # <<>> /\ rest # <<"-">> /\ IsNaN(ParseNumber(rest))

\* C12: a load of a file with a malformed count or money cell fails with a
\* DataFormatError and returns no rows; the cell is never loaded as 0.
C12_MalformedCellFailsLoad ==
    (/\ cache = "warm" \/ raised # "none"
     /\ "Period" \in source.columns
     /\ \E i \in 1..Len(source.rows) : \E h \in CountHeaders \cup MoneyHeaders :
            IsMalformed(source.rows[i][h]))
    => raised = "DataFormatError" /\ dfp = <<>>

-----------------------------------------------------------------------------
(* All pages: the sidebar chooses among the dashboard pages and the portal page *)

InitPages == Init \/ InitPortal

NextPages ==
    \/ home_page
    \/ settlement_analysis_page
    \/ Litigation_analysis_page
    \/ claims_portal_page
    \/ rerun

SpecPages == InitPages /\ [][NextPages]_vars

\* the rows of a frame in the order p
Permuted(frame, p) == [i \in 1..Len(frame) |-> frame[p[i]]]

\* plot_df of the Home page for the filters of the state, from any frame
HomePlot(frame) ==
    IF CombinedSelected THEN HomeCombinedFrame(frame, start_date, end_date)
    ELSE HomeStatusFrame(frame, selected_rep, start_date, end_date)

\* C13: the aggregations give the same rows, in the same order, with the same
\* values for every order of their input rows: the Home page's group-sum and
\* gap-fill over df, and _complete_months_per_lob over the masked portal rows.
C13_OrderIndependent ==
    /\ page = "Home" =>
          \A p \in Permutations(1..Len(df)) : HomePlot(Permuted(df, p)) = plot_df
    /\ page = "Claims Portal" =>
          \A p \in Permutations(1..Len(filtered_df)) :
              _complete_months_per_lob(Permuted(filtered_df, p)) = plot_df

\* two different rows of one LoB and month went through the duplicate collapse
C13_Witness ==
    /\ page = "Claims Portal"
    /\ \E i, j \in 1..Len(filtered_df) :
          /\ i < j
          /\ filtered_df[i] # filtered_df[j]
          /\ filtered_df[i].lob = filtered_df[j].lob
          /\ filtered_df[i].year_month = filtered_df[j].year_month
    /\ Len(plot_df) = 1

\* court / (settled + court) when that is positive, else 0
CourtShare(court, settled) ==
    IF settled + court > 0 THEN TrueDiv(court, settled + court) ELSE Zero

\* C14: every litigation percentage is court-exited / (settled + court-exited),
\* and 0 when that denominator is 0: each row of the Litigation page, and the
\* 'Litigation % (of outcomes)' KPI of the Claims Portal page over its view.
C14_LitigationPct ==
    /\ page = "Litigation Analysis" =>
          \A j \in 1..Len(plot_df) :
              plot_df[j].litigation_pct =
                  CourtShare(plot_df[j].exit_court, plot_df[j].settlement_volume)
    /\ page = "Claims Portal" =>
          summary.lit_pct =
              CourtShare(ColSum(plot_df, "court_pack"), ColSum(plot_df, "settled_claims"))

\* a pair the Date Range slider of the portal page can show: ordered, inside
\* [min_date, max_date]
SliderCanProduce(s, e) ==
    DateLE(MinDate(dfp), s) /\ DateLE(s, e) /\ DateLE(e, MaxDate(dfp))

\* C15: on the Claims Portal page a row of a selected LoB is kept exactly when
\* its month lies between the month of start_date and the month of end_date,
\* whatever day of its month start_date is.
C15_PortalWindowByMonth ==
    (page = "Claims Portal" /\ SliderCanProduce(start_date, end_date)) =>
        LET Keep(r) == /\ r.lob \in selected_lobs
                       /\ start_date.month <= r.year_month.month
                       /\ r.year_month.month <= end_date.month
        IN  filtered_df = SelectSeq(dfp, Keep)

-----------------------------------------------------------------------------
(* _complete_months_per_lob over views with gaps *)

MaxSpan == 3

MaxViewRows == 3

\* the rows a view can hold over a span of MaxSpan months
ViewRows == { PortalRow(lob, m, c) : lob \in Lobs, m \in 1..MaxSpan, c \in PortalMetrics }

\* dfp.loc[mask].copy().sort_values(["lob", "year_month"]) leaves the rows in
\* the order of their keys, rows of one LoB and month in either order
IsSortedView(f) == \A i \in 1..(Len(f) - 1) : LobKeyLE(f[i], f[i + 1])

\* view = _complete_months_per_lob(view)
complete_view ==
    /\ filtered_df = <<>>
    /\ dfp # <<>>
    /\ filtered_df' = dfp
    /\ plot_df' = _complete_months_per_lob(dfp)
    /\ UNCHANGED <<source, cache, df, dfp, page, quick_date_range, selected_rep, combined, selected_lobs,
                   start_date, end_date, summary, raised>>

InitViews ==
    /\ source = NoSource
    /\ cache = "warm"
    /\ df = <<>>
    /\ \E n \in 1..MaxViewRows : dfp \in [1..n -> ViewRows]
    /\ IsSortedView(dfp)
    /\ page = "none"
    /\ quick_date_range = "none"
    /\ selected_rep = {}
    /\ combined = FALSE
    /\ selected_lobs = {}
    /\ start_date = NoDate
    /\ end_date = NoDate
    /\ filtered_df = <<>>
    /\ plot_df = <<>>
    /\ summary = NoSummary
    /\ raised = "none"

NextViews == complete_view

SpecViews == InitViews /\ [][NextViews]_vars

\* the months in which a LoB has rows in a frame
MonthsOfLob(frame, lob) ==
    { frame[i].year_month.month : i \in { k \in 1..Len(frame) : frame[k].lob = lob } }

SetMin(S) == CHOOSE x \in S : \A y \in S : x <= y

SetMax(S) == CHOOSE x \in S : \A y \in S : y <= x

\* C16: for a non-empty view, the completed frame has, for each LoB of the
\* view, exactly one row for every month from the LoB's earliest to its latest
\* month and no other row; a row of a month the LoB had no row for is all
\* zero; each LoB's total of each count metric is the view's.
C16_CompleteMonthsPerLob ==
    filtered_df # <<>> =>
        \A lob \in Lobs :
            LET ms   == MonthsOfLob(filtered_df, lob)
                Out  == { j \in 1..Len(plot_df) : plot_df[j].lob = lob }
                In   == { i \in 1..Len(filtered_df) : filtered_df[i].lob = lob }
            IN  /\ ms = {} => Out = {}
                /\ ms # {} =>
                     /\ \A m \in SetMin(ms)..SetMax(ms) :
                            Cardinality({ j \in Out : plot_df[j].year_month = Ts(m) }) = 1
                     /\ \A j \in Out :
                            /\ plot_df[j].year_month.month \in SetMin(ms)..SetMax(ms)
                            /\ plot_df[j].year_month.day = 1
                            /\ plot_df[j].year_month.month \notin ms =>
                                  /\ \A col \in sum_cols_all : plot_df[j][col] = 0
                                  /\ plot_df[j].general_damages = Zero
                /\ \A col \in sum_cols_all :
                       SumAt(plot_df, col, Out) = SumAt(filtered_df, col, In)

\* a LoB with two different rows in one month, none in the next, one in the third
C16_Witness ==
    /\ Len(filtered_df) = 3
    /\ filtered_df[1] # filtered_df[2]
    /\ filtered_df[1].lob = filtered_df[3].lob
    /\ filtered_df[1].year_month = Ts(1)
    /\ filtered_df[2].year_month = Ts(1)
    /\ filtered_df[3].year_month = Ts(3)
    /\ Len(plot_df) = 3
    /\ plot_df[2].year_month = Ts(2)
    /\ plot_df[2].new_claim = 0

-----------------------------------------------------------------------------
(* The quick date ranges over data of many months *)

MaxHorizon == 38

\* a dashboard file with a record in month 1 and one in month last
LongCsvFile(last, status, m) ==
    LET Rec(month) == [period |-> month, representation_status |-> status, m |-> m]
    IN  IF last = 1 THEN <<Rec(1)>> ELSE <<Rec(1), Rec(last)>>

LongCsvFiles ==
    { LongCsvFile(last, status, m) :
        last \in 1..MaxHorizon, status \in RepStatuses, m \in DashMetrics }

\* a portal frame with a row in month 1 and one in month last
LongPortalFrame(last, lob, c) ==
    IF last = 1 THEN <<PortalRow(lob, 1, c)>>
    ELSE <<PortalRow(lob, 1, c), PortalRow(lob, last, c)>>

LongPortalFrames ==
    { LongPortalFrame(last, lob, c) : last \in 1..MaxHorizon, lob \in Lobs, c \in PortalMetrics }

InitWindows ==
    /\ source = NoSource
    /\ cache = "warm"
    /\ \/ (\E file \in LongCsvFiles : df = get_data(file)) /\ dfp = <<>>
       \/ df = <<>> /\ dfp \in LongPortalFrames
    /\ page = "none"
    /\ quick_date_range = "none"
    /\ selected_rep = {}
    /\ combined = FALSE
    /\ selected_lobs = {}
    /\ start_date = NoDate
    /\ end_date = NoDate
    /\ filtered_df = <<>>
    /\ plot_df = <<>>
    /\ summary = NoSummary
    /\ raised = "none"

NextWindows ==
    \/ home_page
    \/ claims_portal_page
    \/ rerun

SpecWindows == InitWindows /\ [][NextWindows]_vars

\* the frame the page of the state works on
PageFrame == IF page = "Claims Portal" THEN dfp ELSE df

\* the number of calendar months from the first data month to the last
DataSpan == MaxDate(PageFrame).month - MinDate(PageFrame).month + 1

\* the N of "Last N months"
LastN ==
    IF quick_date_range = "Last 12 months" THEN 12
    ELSE IF quick_date_range = "Last 24 months" THEN 24 ELSE 36

\* C17: with the quick range 'Last N months' the window of the page ends at the
\* latest data month; it holds exactly N calendar months when the data spans
\* at least N months, and starts at the earliest data month when it spans fewer.
C17_QuickRangeWindow ==
    (page \in {"Home", "Claims Portal"} /\ quick_date_range \notin {"none", "Custom"}) =>
        /\ end_date.month = MaxDate(PageFrame).month
        /\ DataSpan >= LastN => end_date.month - start_date.month + 1 = LastN
        /\ DataSpan < LastN => start_date = MinDate(PageFrame)

====
